---- MODULE Spec2Model ----
(***************************************************************************)
(* Hashed-dictionary hints of keth's cairo-addons crate                    *)
(* (crates/cairo-addons/src/vm/hint_definitions/hashdict.rs).              *)
(*                                                                         *)
(* State: the dictionary manager's trackers (mapping in insertion order,   *)
(* cursor, optional default value), the VM memory, and a record of the     *)
(* hint that ran last.  One action per hint.                               *)
(***************************************************************************)
EXTENDS Integers, Sequences, FiniteSets, TLC

VARIABLES trackers, memory, last, stats, ops

vars == <<trackers, memory, last, stats, ops>>

(***************************************************************************)
(* Bounds of the model.                                                    *)
(***************************************************************************)
\* hint invocations that change a tracker, over the whole run
MaxOps == 2
\* largest key_len / prefix_len operand
MaxKeyLen == 2
\* size of the reserved-address set (Precompiles::cancun() has 10)
NumPrecompiles == 2
\* bytes of an address (revm's Address has 20)
AddressBytes == 2

(***************************************************************************)
(* Values (MaybeRelocatable) and keys (DictKey).                           *)
(***************************************************************************)
IntV(n) == <<"Int", n, 0>>
RelV(s, o) == <<"Rel", s, o>>
NoneV == <<"None", 0, 0>>

IsInt(v) == v[1] = "Int"
IsRel(v) == v[1] = "Rel"

Simple(v) == <<"Simple", <<v>>>>
Compound(vs) == <<"Compound", vs>>
NoKey == <<"NoKey", <<>>>>

IsCompound(k) == k[1] = "Compound"
IsSimple(k) == k[1] = "Simple"

\* cairo_vm's DICT_ACCESS_SIZE: cells of one DictAccess record
DICT_ACCESS_SIZE == 3

(***************************************************************************)
(* The sponge (poseidon_hash_many) is an external primitive: a fixed       *)
(* function from scalar sequences to scalars, here into a range disjoint   *)
(* from the small scalars that programs store.                             *)
(***************************************************************************)
SpongeBase == 1000
SpongeMod == 997

RECURSIVE SpongeFold(_)
SpongeFold(s) ==
    IF s = <<>> THEN 7
    ELSE (SpongeFold(SubSeq(s, 1, Len(s) - 1)) * 13 + s[Len(s)] + 1) % SpongeMod

poseidon_hash_many(s) == SpongeBase + SpongeFold(s)

(***************************************************************************)
(* VM memory: a partial map from addresses to values (write-once cells).   *)
(***************************************************************************)
\* Segments allocated before the first hint runs: the program's key and
\* prefix cells, two dictionaries, a segment that backs no dictionary, the
\* operand cells of the running hint, and the target of preimage_data.
Layout == [key |-> 0, dicts |-> {1, 2}, nodict |-> 3, frame |-> 4, data |-> 5,
           fresh |-> 6]

KeySegment == Layout.key
TrackerSegments == Layout.dicts
NoDictSegment == Layout.nodict
FrameSegment == Layout.frame
DataSegment == Layout.data
\* index vm.add_memory_segment() hands out first in a hint invocation
FirstFreshSegment == Layout.fresh

H1020 == poseidon_hash_many(<<10, 20>>)

(***************************************************************************)
(* The reserved addresses: big-endian byte strings 1..NumPrecompiles, and  *)
(* the scalar Felt252::from_bytes_le_slice makes of one.                   *)
(***************************************************************************)
PrecompileAddress(n) == [i \in 1..AddressBytes |-> IF i = AddressBytes THEN n ELSE 0]

RECURSIVE from_bytes_be_slice(_)
from_bytes_be_slice(bytes) ==
    IF bytes = <<>> THEN 0
    ELSE bytes[Len(bytes)] + 256 * from_bytes_be_slice(SubSeq(bytes, 1, Len(bytes) - 1))

RECURSIVE from_bytes_le_slice(_)
from_bytes_le_slice(bytes) ==
    IF bytes = <<>> THEN 0
    ELSE bytes[1] + 256 * from_bytes_le_slice(SubSeq(bytes, 2, Len(bytes)))

PrecompileFelt(n) == from_bytes_le_slice(PrecompileAddress(n))

\* cells of the key segment, from offset 0; the cell after them is unset
KeyCells == <<IntV(10), IntV(20)>>

get_maybe(mem, addr) == IF addr \in DOMAIN mem THEN mem[addr] ELSE NoneV

\* vm.insert_value: a cell is written once; writing the value it holds is allowed
CanInsert(mem, addr, v) == addr \notin DOMAIN mem \/ mem[addr] = v

InsertCell(mem, addr, v) ==
    [a \in DOMAIN mem \cup {addr} |-> IF a = addr THEN v ELSE mem[a]]

AddOffset(addr, i) == RelV(addr[2], addr[3] + i)

(***************************************************************************)
(* cairo_vm's dictionary manager and trackers (dependency of the crate).   *)
(* A tracker is [data, current_ptr, default]: data is the mapping as a     *)
(* sequence of <<key, value>> in order of first insertion; default is      *)
(* NoneV for a SimpleDictionary and the default value of a                 *)
(* DefaultDictionary otherwise.                                            *)
(***************************************************************************)
KeyIndex(data, key) ==
    IF \E i \in 1..Len(data) : data[i][1] = key
    THEN CHOOSE i \in 1..Len(data) : data[i][1] = key
    ELSE 0

HasKey(t, key) == KeyIndex(t.data, key) # 0

ValueOf(t, key) == t.data[KeyIndex(t.data, key)][2]

Keys(t) == [i \in 1..Len(t.data) |-> t.data[i][1]]

\* DictTracker::insert_value: overwrite in place, or append a new key
insert_value(t, key, val) ==
    IF HasKey(t, key)
    THEN [t EXCEPT !.data[KeyIndex(t.data, key)] = <<key, val>>]
    ELSE [t EXCEPT !.data = Append(t.data, <<key, val>>)]

\* DictTracker::get_value (&mut self): a SimpleDictionary misses on an absent
\* key; a DefaultDictionary enters the default under the key and returns it
get_value(t, key) ==
    IF HasKey(t, key) THEN [ok |-> TRUE, value |-> ValueOf(t, key), tracker |-> t]
    ELSE IF t.default = NoneV THEN [ok |-> FALSE, value |-> NoneV, tracker |-> t]
    ELSE [ok |-> TRUE, value |-> t.default,
          tracker |-> insert_value(t, key, t.default)]

\* DictManager::get_tracker / get_tracker_mut: the tracker of the pointer's
\* segment, which must stand at the pointer
get_tracker(trs, dict_ptr) ==
    IF dict_ptr[2] \notin DOMAIN trs THEN [ok |-> FALSE, err |-> "NoDictTracker"]
    ELSE IF trs[dict_ptr[2]].current_ptr # dict_ptr
         THEN [ok |-> FALSE, err |-> "MismatchedDictPtr"]
    ELSE [ok |-> TRUE, err |-> ""]

(***************************************************************************)
(* Operand cells of the running hint (the ids).  Each hint invocation has   *)
(* its own operands; the program may already have asserted an output.      *)
(***************************************************************************)
ValueCell == RelV(FrameSegment, 0)
PreimageLenCell == RelV(FrameSegment, 1)
KeysLenCell == RelV(FrameSegment, 2)
KeysCell == RelV(FrameSegment, 3)
PreimageData == RelV(DataSegment, 0)

Persistent(addr) == addr[2] = KeySegment \/ addr[2] \in TrackerSegments

\* the memory a hint starts in: the program has set operand `cell` to `pre`
NewFrame(mem, cell, pre) ==
    IF pre = NoneV THEN mem ELSE InsertCell(mem, cell, pre)

\* the memory the next hint finds: the operands and output segments of the
\* hint that ran are no longer addressed
Released(mem) == [a \in {x \in DOMAIN mem : Persistent(x)} |-> mem[a]]

(***************************************************************************)
(* hashdict.rs                                                             *)
(***************************************************************************)
AdvanceCursor_Skip(t) == t

AdvanceCursor_ByOne(t) == [t EXCEPT !.current_ptr = AddOffset(@, 1)]

\* tracker.current_ptr.offset += DICT_ACCESS_SIZE
AdvanceCursor(t) == [t EXCEPT !.current_ptr = AddOffset(@, DICT_ACCESS_SIZE)]

PrevValueCell_NewValue(dict_ptr) == AddOffset(dict_ptr, 2)

\* (dict_ptr + 1): the prev_value cell of the DictAccess record at dict_ptr
PrevValueCell(dict_ptr) == AddOffset(dict_ptr, 1)

build_compound_key_Simple(mem, key, key_len) ==
    LET cells == [i \in 1..key_len |-> get_maybe(mem, AddOffset(key, i - 1))]
    IN  IF \E i \in 1..key_len : cells[i] = NoneV
        THEN [ok |-> FALSE, key |-> NoKey]
        ELSE [ok |-> TRUE,
              key |-> IF key_len = 1 THEN Simple(cells[1]) ELSE Compound(cells)]

build_compound_key(mem, key, key_len) ==
    LET cells == [i \in 1..key_len |-> get_maybe(mem, AddOffset(key, i - 1))]
    IN  IF \E i \in 1..key_len : cells[i] = NoneV
        THEN [ok |-> FALSE, key |-> NoKey]
        ELSE [ok |-> TRUE, key |-> Compound(cells)]

\* what a hint leaves: the trackers, the memory, Ok or the error, and the key,
\* value and old value it worked with
Res(trs, mem, ok, err, key, value, old) ==
    [trackers |-> trs, memory |-> mem, ok |-> ok, err |-> err,
     key |-> key, value |-> value, old |-> old, matches |-> <<>>]

hashdict_read(trs, mem, dict_ptr, key, key_len) ==
    LET g == get_tracker(trs, dict_ptr) IN
    IF ~g.ok THEN Res(trs, mem, FALSE, g.err, NoKey, NoneV, NoneV) ELSE
    LET id == dict_ptr[2]
        trs1 == [trs EXCEPT ![id] = AdvanceCursor(@)]
    IN
    IF ~IsInt(key_len)
    THEN Res(trs1, mem, FALSE, "IdentifierNotInteger", NoKey, NoneV, NoneV) ELSE
    LET b == build_compound_key(mem, key, key_len[2]) IN
    IF ~b.ok THEN Res(trs1, mem, FALSE, "UnknownMemoryCell", NoKey, NoneV, NoneV) ELSE
    LET v == get_value(trs1[id], b.key)
        trs2 == [trs1 EXCEPT ![id] = v.tracker]
    IN
    IF ~v.ok THEN Res(trs2, mem, FALSE, "NoValueForKey", b.key, NoneV, NoneV) ELSE
    IF ~CanInsert(mem, ValueCell, v.value)
    THEN Res(trs2, mem, FALSE, "InconsistentMemory", b.key, NoneV, NoneV)
    ELSE Res(trs2, InsertCell(mem, ValueCell, v.value), TRUE, "", b.key, v.value, NoneV)

StoreNewValue_Skip(t, key, new_value) == t

\* tracker.insert_value(&dict_key, &new_value)
StoreNewValue(t, key, new_value) == insert_value(t, key, new_value)

hashdict_write(trs, mem, dict_ptr, key, key_len, new_value) ==
    LET g == get_tracker(trs, dict_ptr) IN
    IF ~g.ok THEN Res(trs, mem, FALSE, g.err, NoKey, NoneV, NoneV) ELSE
    LET id == dict_ptr[2]
        trs1 == [trs EXCEPT ![id] = AdvanceCursor(@)]
    IN
    IF ~IsInt(key_len)
    THEN Res(trs1, mem, FALSE, "IdentifierNotInteger", NoKey, NoneV, NoneV) ELSE
    LET b == build_compound_key(mem, key, key_len[2]) IN
    IF ~b.ok THEN Res(trs1, mem, FALSE, "UnknownMemoryCell", NoKey, NoneV, NoneV) ELSE
    IF new_value = NoneV
    THEN Res(trs1, mem, FALSE, "UnknownIdentifier", b.key, NoneV, NoneV) ELSE
    LET dict_ptr_prev_value == PrevValueCell(dict_ptr)
        v == get_value(trs1[id], b.key)
        trs2 == [trs1 EXCEPT ![id] = v.tracker]
    IN
    IF ~v.ok THEN Res(trs2, mem, FALSE, "NoValueForKey", b.key, NoneV, NoneV) ELSE
    IF ~CanInsert(mem, dict_ptr_prev_value, v.value)
    THEN Res(trs2, mem, FALSE, "UnknownMemoryCell", b.key, NoneV, v.value)
    ELSE Res([trs2 EXCEPT ![id] = StoreNewValue(@, b.key, new_value)],
             InsertCell(mem, dict_ptr_prev_value, v.value),
             TRUE, "", b.key, new_value, v.value)

KeyHash_FirstScalar(values) ==
    LET ints == SelectSeq(values, IsInt)
    IN  IF Len(ints) >= 1 THEN ints[1][2] ELSE poseidon_hash_many(<<>>)

\* the hash the search computes for the elements of a Compound key
KeyHash(values) ==
    LET ints == SelectSeq(values, IsInt)
        felt_values == [i \in 1..Len(ints) |-> ints[i][2]]
    IN  IF Len(felt_values) = 1 THEN felt_values[1]
        ELSE poseidon_hash_many(felt_values)

Matches(key, hashed_key) == IsCompound(key) /\ KeyHash(key[2]) = hashed_key

FirstMatch_Last(keys, hashed_key) ==
    IF \E i \in 1..Len(keys) : Matches(keys[i], hashed_key)
    THEN CHOOSE i \in 1..Len(keys) :
            /\ Matches(keys[i], hashed_key)
            /\ \A j \in (i + 1)..Len(keys) : ~Matches(keys[j], hashed_key)
    ELSE 0

\* keys().find(..): the first key of the tracker, in its order, that matches
FirstMatch(keys, hashed_key) ==
    IF \E i \in 1..Len(keys) : Matches(keys[i], hashed_key)
    THEN CHOOSE i \in 1..Len(keys) :
            /\ Matches(keys[i], hashed_key)
            /\ \A j \in 1..(i - 1) : ~Matches(keys[j], hashed_key)
    ELSE 0

get_preimage_for_hashed_key(hashed_key, t) ==
    LET i == FirstMatch(Keys(t), hashed_key)
    IN  IF i = 0 THEN [ok |-> FALSE, key |-> NoKey]
        ELSE [ok |-> TRUE, key |-> Keys(t)[i]]

Fallback_None(found, simple_key) == found.key

\* _get_preimage_for_hashed_key(..).unwrap_or(&simple_key)
Fallback(found, simple_key) == IF found.ok THEN found.key ELSE simple_key

Borrowed_Logged(t) == [t EXCEPT !.current_ptr = AddOffset(@, DICT_ACCESS_SIZE)]

\* the tracker as get_tracker_mut hands it to the hint: no access is logged
Borrowed(t) == t

hashdict_read_from_key(trs, mem, key, dict_ptr) ==
    IF ~IsInt(key)
    THEN Res(trs, mem, FALSE, "IdentifierNotInteger", NoKey, NoneV, NoneV) ELSE
    LET hashed_key == key[2]
        g == get_tracker(trs, dict_ptr)
    IN
    IF ~g.ok THEN Res(trs, mem, FALSE, g.err, NoKey, NoneV, NoneV) ELSE
    LET id == dict_ptr[2]
        simple_key == Simple(IntV(hashed_key))
        found == get_preimage_for_hashed_key(hashed_key, trs[id])
        preimage == Fallback(found, simple_key)
        v == get_value(Borrowed(trs[id]), preimage)
        trs1 == [trs EXCEPT ![id] = v.tracker]
    IN
    IF ~v.ok THEN Res(trs1, mem, FALSE, "NoValueForPreimage", preimage, NoneV, NoneV) ELSE
    IF ~CanInsert(mem, ValueCell, v.value)
    THEN Res(trs1, mem, FALSE, "InconsistentMemory", preimage, NoneV, NoneV)
    ELSE Res(trs1, InsertCell(mem, ValueCell, v.value), TRUE, "", preimage, v.value, NoneV)

InsertSeq_Skip(mem, base, values, i) == [ok |-> TRUE, memory |-> mem]

\* the writes of a loop of vm.insert_value(base + i, values[i])?: cells written
\* before a failing one stay written
RECURSIVE InsertSeq(_, _, _, _)
InsertSeq(mem, base, values, i) ==
    IF i > Len(values) THEN [ok |-> TRUE, memory |-> mem]
    ELSE IF ~CanInsert(mem, AddOffset(base, i - 1), values[i])
         THEN [ok |-> FALSE, memory |-> mem]
    ELSE InsertSeq(InsertCell(mem, AddOffset(base, i - 1), values[i]), base, values, i + 1)

get_preimage_for_key(trs, mem, key, dict_ptr, preimage_data) ==
    IF ~IsInt(key)
    THEN Res(trs, mem, FALSE, "IdentifierNotInteger", NoKey, NoneV, NoneV) ELSE
    LET hashed_key == key[2]
        g == get_tracker(trs, dict_ptr)
    IN
    IF ~g.ok THEN Res(trs, mem, FALSE, g.err, NoKey, NoneV, NoneV) ELSE
    LET found == get_preimage_for_hashed_key(hashed_key, trs[dict_ptr[2]]) IN
    IF ~found.ok THEN Res(trs, mem, FALSE, "NoPreimage", NoKey, NoneV, NoneV) ELSE
    LET values == found.key[2]
        w == InsertSeq(mem, preimage_data, values, 1)
    IN
    IF ~w.ok THEN Res(trs, w.memory, FALSE, "InconsistentMemory", found.key, NoneV, NoneV) ELSE
    IF ~CanInsert(w.memory, PreimageLenCell, IntV(Len(values)))
    THEN Res(trs, w.memory, FALSE, "InconsistentMemory", found.key, NoneV, NoneV)
    ELSE Res(trs, InsertCell(w.memory, PreimageLenCell, IntV(Len(values))),
             TRUE, "", found.key, IntV(Len(values)), NoneV)

UpdateDestination_NoLog(t, preimage, value) == insert_value(t, preimage, value)

\* dest_tracker.current_ptr.offset += DICT_ACCESS_SIZE;
\* dest_tracker.insert_value(&preimage, &value.clone())
UpdateDestination(t, preimage, value) == insert_value(AdvanceCursor(t), preimage, value)

copy_hashdict_tracker_entry(trs, mem, source_ptr_stop, dest_ptr, source_key) ==
    LET gs == get_tracker(trs, source_ptr_stop) IN
    IF ~gs.ok THEN Res(trs, mem, FALSE, gs.err, NoKey, NoneV, NoneV) ELSE
    IF ~IsInt(source_key)
    THEN Res(trs, mem, FALSE, "IdentifierNotInteger", NoKey, NoneV, NoneV) ELSE
    LET src == source_ptr_stop[2]
        found == get_preimage_for_hashed_key(source_key[2], trs[src])
    IN
    IF ~found.ok THEN Res(trs, mem, FALSE, "NoPreimage", NoKey, NoneV, NoneV) ELSE
    LET preimage == found.key
        v == get_value(Borrowed(trs[src]), preimage)
        trs1 == [trs EXCEPT ![src] = v.tracker]
    IN
    IF ~v.ok THEN Res(trs1, mem, FALSE, "NoValueForPreimage", preimage, NoneV, NoneV) ELSE
    LET gd == get_tracker(trs1, dest_ptr) IN
    IF ~gd.ok THEN Res(trs1, mem, FALSE, gd.err, preimage, NoneV, NoneV) ELSE
    Res([trs1 EXCEPT ![dest_ptr[2]] = UpdateDestination(@, preimage, v.value)],
        mem, TRUE, "", preimage, v.value, NoneV)

SeedAll_Append(t, order, i) ==
    [t EXCEPT !.data =
        @ \o [j \in 1..Len(order) |-> <<Compound(<<IntV(PrecompileFelt(order[j]))>>), IntV(1)>>]]

\* the loop over the reserved addresses, taken in the order `order`
RECURSIVE SeedAll(_, _, _)
SeedAll(t, order, i) ==
    IF i > Len(order) THEN t
    ELSE SeedAll(insert_value(t, Compound(<<IntV(PrecompileFelt(order[i]))>>), IntV(1)),
                 order, i + 1)

AdvanceCursorBy_Once(t, n) == [t EXCEPT !.current_ptr = AddOffset(@, DICT_ACCESS_SIZE)]

\* tracker.current_ptr.offset += precompiles.len() * DICT_ACCESS_SIZE
AdvanceCursorBy(t, n) == [t EXCEPT !.current_ptr = AddOffset(@, n * DICT_ACCESS_SIZE)]

track_precompiles_All(trs, mem, dict_ptr, order) ==
    LET g == get_tracker(trs, dict_ptr) IN
    IF ~g.ok THEN Res(trs, mem, FALSE, g.err, NoKey, NoneV, NoneV) ELSE
    Res([s \in DOMAIN trs |-> AdvanceCursorBy(SeedAll(trs[s], order, 1), Len(order))],
        mem, TRUE, "", NoKey, NoneV, NoneV)

track_precompiles(trs, mem, dict_ptr, order) ==
    LET g == get_tracker(trs, dict_ptr) IN
    IF ~g.ok THEN Res(trs, mem, FALSE, g.err, NoKey, NoneV, NoneV) ELSE
    Res([trs EXCEPT ![dict_ptr[2]] = AdvanceCursorBy(SeedAll(@, order, 1), Len(order))],
        mem, TRUE, "", NoKey, NoneV, NoneV)

StartsWith_AnyKey(key, prefix) ==
    /\ Len(key[2]) >= Len(prefix)
    /\ SubSeq(key[2], 1, Len(prefix)) = prefix

\* key starts with prefix: values.len() >= prefix.len() && values[..prefix.len()] == prefix
StartsWith(key, prefix) ==
    /\ IsCompound(key)
    /\ Len(key[2]) >= Len(prefix)
    /\ SubSeq(key[2], 1, Len(prefix)) = prefix

\* keys().filter_map(..).collect(): the matching keys, in the tracker's order
MatchingPreimages(t, prefix) ==
    LET hit(k) == StartsWith(k, prefix)
        ks == SelectSeq(Keys(t), hit)
    IN  [i \in 1..Len(ks) |-> ks[i][2]]

\* the output loop: match i gets segments ptr and bytes32_base after base;
\* preimage[1..] and preimage[0] panic on an empty preimage
RECURSIVE WriteMatches(_, _, _)
WriteMatches(mem, matching, i) ==
    IF i > Len(matching) THEN [ok |-> TRUE, memory |-> mem] ELSE
    LET preimage == matching[i]
        base == RelV(FirstFreshSegment, 0)
        ptr == RelV(FirstFreshSegment + 2 * i - 1, 0)
        bytes32_base == RelV(FirstFreshSegment + 2 * i, 0)
    IN
    IF Len(preimage) = 0 THEN [ok |-> FALSE, memory |-> mem] ELSE
    LET rest == InsertSeq(mem, bytes32_base, SubSeq(preimage, 2, Len(preimage)), 1).memory
        rec == InsertCell(InsertCell(rest, ptr, preimage[1]),
                          AddOffset(ptr, 1), bytes32_base)
    IN  WriteMatches(InsertCell(rec, AddOffset(base, i - 1), ptr), matching, i + 1)

get_keys_for_address_prefix(trs, mem, dict_ptr, prefix_ptr, prefix_len) ==
    LET g == get_tracker(trs, dict_ptr)
        fail(m, e) == Res(trs, m, FALSE, e, NoKey, NoneV, NoneV)
    IN
    IF ~g.ok THEN fail(mem, g.err) ELSE
    IF ~IsInt(prefix_len) THEN fail(mem, "IdentifierNotInteger") ELSE
    LET p == build_compound_key(mem, prefix_ptr, prefix_len[2]) IN
    IF ~p.ok THEN fail(mem, "UnknownMemoryCell") ELSE
    LET prefix == p.key[2]
        matching_preimages == MatchingPreimages(trs[dict_ptr[2]], prefix)
        w == WriteMatches(mem, matching_preimages, 1)
        keys_len == IntV(Len(matching_preimages))
        base == RelV(FirstFreshSegment, 0)
    IN
    IF ~w.ok THEN fail(w.memory, "Panic") ELSE
    IF ~CanInsert(w.memory, KeysLenCell, keys_len)
    THEN fail(w.memory, "InconsistentMemory") ELSE
    LET m1 == InsertCell(w.memory, KeysLenCell, keys_len) IN
    IF ~CanInsert(m1, KeysCell, base) THEN fail(m1, "InconsistentMemory") ELSE
    [Res(trs, InsertCell(m1, KeysCell, base), TRUE, "", Compound(prefix), keys_len, NoneV)
        EXCEPT !.matches = matching_preimages]

(***************************************************************************)
(* The state machine.                                                      *)
(***************************************************************************)
\* pointers a program passes as dict_ptr: each tracker's cursor, a pointer
\* into a segment without a tracker, and a pointer that is not a cursor
DictPtrs ==
    {trackers[s].current_ptr : s \in TrackerSegments}
        \cup {RelV(NoDictSegment, 0), AddOffset(trackers[1].current_ptr, 1)}

\* pointers a program passes as dest_ptr
DestPtrs ==
    {trackers[s].current_ptr : s \in TrackerSegments} \cup {RelV(NoDictSegment, 0)}

KeyPtrs == {RelV(KeySegment, o) : o \in 0..(Len(KeyCells) - 1)}

\* The operands that come with a dict_ptr: every choice when the pointer
\* resolves to a tracker, one when it does not (the hint then fails before
\* it reads them).
For(dict_ptr, S) ==
    IF get_tracker(trackers, dict_ptr).ok THEN S ELSE {CHOOSE x \in S : TRUE}

\* key_len / prefix_len operands: lengths, and a cell that holds no integer
KeyLens == {IntV(n) : n \in 0..MaxKeyLen} \cup {RelV(KeySegment, 0)}

\* new_value operands; NoneV is an operand the program has not set
NewValues == {IntV(7), NoneV}

\* what an output operand holds before the hint runs
Presets == {NoneV, IntV(7)}

\* hashes a program asks for, and an operand that holds no integer
HashOperands ==
    {IntV(10), IntV(20), IntV(H1020), IntV(poseidon_hash_many(<<>>)),
     RelV(KeySegment, 0)}

\* Precompiles::cancun().addresses() iterates a hash set, in no fixed order;
\* two of the orders it may yield: ascending and descending
PrecompileOrders ==
    {[i \in 1..NumPrecompiles |-> i], [i \in 1..NumPrecompiles |-> NumPrecompiles + 1 - i]}

\* the hint that ran last: its operands, the trackers and memory it started
\* in, and what it returned
NoCall ==
    [op |-> "none", dict_ptr |-> NoneV, dest_ptr |-> NoneV, key_ptr |-> NoneV,
     arg |-> NoneV, new_value |-> NoneV, before |-> <<>>, mem_before |-> <<>>,
     ok |-> TRUE, err |-> "", key |-> NoKey, value |-> NoneV, old |-> NoneV,
     matches |-> <<>>, resolved |-> FALSE]

Call(op, dict_ptr, dest_ptr, key_ptr, arg, new_value, mem, r) ==
    [op |-> op, dict_ptr |-> dict_ptr, dest_ptr |-> dest_ptr, key_ptr |-> key_ptr,
     arg |-> arg, new_value |-> new_value, before |-> trackers, mem_before |-> mem,
     ok |-> r.ok, err |-> r.err, key |-> r.key, value |-> r.value, old |-> r.old,
     matches |-> r.matches, resolved |-> get_tracker(trackers, dict_ptr).ok]

\* per tracker: the cursor's offset at the start, successful Reads and Writes
\* plus seeded entries, Reads and Writes that failed after the tracker was
\* resolved, and copies received
NoStats == [initial |-> 0, accesses |-> 0, failed |-> 0, copies |-> 0]

\* a hint that changes a tracker runs only while the run's budget lasts
Budget(r) == r.trackers # trackers => ops < MaxOps

Idle == last.op = "none"

Count(r) == IF r.trackers # trackers THEN ops + 1 ELSE ops

Init ==
    /\ trackers =
          [s \in TrackerSegments |->
              IF s = 1
              THEN [data |-> <<>>, current_ptr |-> RelV(1, 0), default |-> IntV(0)]
              ELSE [data |-> << <<Simple(IntV(10)), IntV(8)>>,
                               <<Compound(<<IntV(20), RelV(DataSegment, 0)>>), IntV(7)>>,
                               <<Compound(<<IntV(20)>>), IntV(8)>>,
                               <<Compound(<<IntV(PrecompileFelt(1))>>), IntV(7)>> >>,
                    current_ptr |-> RelV(2, 0), default |-> NoneV]]
    /\ memory =
          [a \in KeyPtrs \cup {RelV(1, DICT_ACCESS_SIZE + 1)} |->
              IF a[2] = KeySegment THEN KeyCells[a[3] + 1] ELSE IntV(7)]
    /\ last = NoCall
    /\ stats = [s \in TrackerSegments |-> NoStats]
    /\ ops = 0

Bump(st, dict_ptr, field, n) ==
    IF get_tracker(trackers, dict_ptr).ok
    THEN [st EXCEPT ![dict_ptr[2]][field] = @ + n]
    ELSE st

HashdictRead ==
    /\ Idle
    /\ \E dict_ptr \in DictPtrs :
       \E key \in For(dict_ptr, KeyPtrs), key_len \in For(dict_ptr, KeyLens) :
           \E mem \in {NewFrame(memory, ValueCell, NoneV)} :
           \E r \in {hashdict_read(trackers, mem, dict_ptr, key, key_len)} :
               /\ Budget(r)
               /\ ops' = Count(r)
               /\ trackers' = r.trackers
               /\ memory' = r.memory
               /\ last' = Call("read", dict_ptr, NoneV, key, key_len, NoneV, mem, r)
               /\ stats' = Bump(stats, dict_ptr, IF r.ok THEN "accesses" ELSE "failed", 1)

HashdictWrite ==
    /\ Idle
    /\ \E dict_ptr \in DictPtrs :
       \E key \in For(dict_ptr, KeyPtrs), key_len \in For(dict_ptr, KeyLens),
          new_value \in For(dict_ptr, NewValues) :
           \E mem \in {NewFrame(memory, ValueCell, NoneV)} :
           \E r \in {hashdict_write(trackers, mem, dict_ptr, key, key_len, new_value)} :
               /\ Budget(r)
               /\ ops' = Count(r)
               /\ trackers' = r.trackers
               /\ memory' = r.memory
               /\ last' = Call("write", dict_ptr, NoneV, key, key_len, new_value, mem, r)
               /\ stats' = Bump(stats, dict_ptr, IF r.ok THEN "accesses" ELSE "failed", 1)

HashdictReadFromKey ==
    /\ Idle
    /\ \E dict_ptr \in DictPtrs :
       \E key \in For(dict_ptr, HashOperands), pre \in For(dict_ptr, Presets) :
           \E mem \in {NewFrame(memory, ValueCell, pre)} :
           \E r \in {hashdict_read_from_key(trackers, mem, key, dict_ptr)} :
               /\ Budget(r)
               /\ ops' = Count(r)
               /\ trackers' = r.trackers
               /\ memory' = r.memory
               /\ last' = Call("read_from_key", dict_ptr, NoneV, NoneV, key, NoneV, mem, r)
               /\ stats' = stats

GetPreimageForKey ==
    /\ Idle
    /\ \E dict_ptr \in DictPtrs :
       \E key \in For(dict_ptr, HashOperands), pre \in For(dict_ptr, Presets) :
           \E mem \in {NewFrame(memory, AddOffset(PreimageData, 1), pre)} :
           \E r \in {get_preimage_for_key(trackers, mem, key, dict_ptr, PreimageData)} :
               /\ Budget(r)
               /\ ops' = Count(r)
               /\ trackers' = r.trackers
               /\ memory' = r.memory
               /\ last' = Call("get_preimage", dict_ptr, NoneV, NoneV, key, NoneV, mem, r)
               /\ stats' = stats

CopyHashdictTrackerEntry ==
    /\ Idle
    /\ \E source_ptr_stop \in DictPtrs :
       \E dest_ptr \in For(source_ptr_stop, DestPtrs),
          source_key \in For(source_ptr_stop, HashOperands) :
           \E mem \in {NewFrame(memory, ValueCell, NoneV)} :
           \E r \in {copy_hashdict_tracker_entry(trackers, mem, source_ptr_stop,
                                                  dest_ptr, source_key)} :
               /\ Budget(r)
               /\ ops' = Count(r)
               /\ trackers' = r.trackers
               /\ memory' = r.memory
               /\ last' = Call("copy", source_ptr_stop, dest_ptr, NoneV, source_key, NoneV, mem, r)
               /\ stats' = IF r.ok THEN Bump(stats, dest_ptr, "copies", 1) ELSE stats

GetKeysForAddressPrefix ==
    /\ Idle
    /\ \E dict_ptr \in DictPtrs :
       \E prefix \in For(dict_ptr, KeyPtrs), prefix_len \in For(dict_ptr, KeyLens),
          pre \in For(dict_ptr, Presets) :
           \E mem \in {NewFrame(memory, KeysLenCell, pre)} :
           \E r \in {get_keys_for_address_prefix(trackers, mem, dict_ptr, prefix, prefix_len)} :
               /\ Budget(r)
               /\ ops' = Count(r)
               /\ trackers' = r.trackers
               /\ memory' = r.memory
               /\ last' = Call("get_keys", dict_ptr, NoneV, prefix, prefix_len, NoneV, mem, r)
               /\ stats' = stats

TrackPrecompiles ==
    /\ Idle
    /\ \E dict_ptr \in DictPtrs :
       \E order \in For(dict_ptr, PrecompileOrders) :
           \E mem \in {NewFrame(memory, ValueCell, NoneV)} :
           \E r \in {track_precompiles(trackers, mem, dict_ptr, order)} :
               /\ Budget(r)
               /\ ops' = Count(r)
               /\ trackers' = r.trackers
               /\ memory' = r.memory
               /\ last' = Call("track_precompiles", dict_ptr, NoneV, NoneV, NoneV,
                               NoneV, mem, r)
               /\ stats' = Bump(stats, dict_ptr, "accesses", Len(order))

\* the hint has returned; the VM goes on to the next one
Return ==
    /\ ~Idle
    /\ last' = NoCall
    /\ memory' = Released(memory)
    /\ UNCHANGED <<trackers, stats, ops>>

Next ==
    \/ HashdictRead
    \/ HashdictWrite
    \/ HashdictReadFromKey
    \/ GetPreimageForKey
    \/ CopyHashdictTrackerEntry
    \/ GetKeysForAddressPrefix
    \/ TrackPrecompiles
    \/ Return

Spec == Init /\ [][Next]_vars

(***************************************************************************)
(* Properties.                                                             *)
(***************************************************************************)
Offset(s) == trackers[s].current_ptr[3]

\* C1 as stated: after N successful Reads and Writes on a tracker, a seeding
\* counting once per seeded entry, the tracker's cursor is its initial value
\* plus N record widths.
C1_OnlySuccessesCounted ==
    \A s \in TrackerSegments :
        Offset(s) = stats[s].initial + stats[s].accesses * DICT_ACCESS_SIZE

\* C1 amended: the cursor is its initial value plus one record width for every
\* Read or Write that resolved the tracker, successful or failed, for every
\* entry of every seeding, and for every copy the tracker received.
C1_CursorAccounting ==
    \A s \in TrackerSegments :
        Offset(s) = stats[s].initial
            + (stats[s].accesses + stats[s].failed + stats[s].copies) * DICT_ACCESS_SIZE

C1_Witness ==
    \E s \in TrackerSegments :
        /\ stats[s].accesses >= 1
        /\ stats[s].failed >= 1
        /\ last.op = "track_precompiles"

\* the tracker a hint's dict_ptr resolved to, before and after the hint
Seg == last.dict_ptr[2]
Before(s) == last.before[s]

\* a Read of the key at (key_ptr, key_len) on tracker s, run in the current state
ReadNow(s, key_ptr, key_len) ==
    hashdict_read(trackers, Released(memory), trackers[s].current_ptr, key_ptr, key_len)

Returns(r, v) == r.ok /\ r.value = v /\ get_maybe(r.memory, ValueCell) = v

WriteOfAbsentKey ==
    /\ last.op = "write" /\ last.resolved
    /\ last.key # NoKey /\ last.new_value # NoneV
    /\ ~HasKey(Before(Seg), last.key)

\* C3 as stated: when K is absent and Write(K, V) is invoked, the tracker maps
\* K to V afterwards.
C3_WriteAlwaysCreates ==
    WriteOfAbsentKey =>
        /\ HasKey(trackers[Seg], last.key)
        /\ ValueOf(trackers[Seg], last.key) = last.new_value

\* the keys track_precompiles writes
PrecompileKeys == {Compound(<<IntV(PrecompileFelt(n))>>) : n \in 1..NumPrecompiles}

\* hint `last` may set the value of key k in tracker s
MaySet(s, k) ==
    \/ last.op = "write" /\ Seg = s /\ last.key = k
    \/ last.op = "copy" /\ last.ok /\ last.dest_ptr[2] = s /\ last.key = k
    \/ last.op = "track_precompiles" /\ Seg = s /\ k \in PrecompileKeys

\* C3 amended: when K is absent and Write(K, V) is invoked on a tracker whose
\* dictionary has no default value, the Write fails with a key-not-found
\* error and K stays absent; a Write of an absent K that succeeds (the
\* tracker has a default value) leaves K mapped to V and a Read of K returns
\* V; and a key's value stays as it is, and the key stays, until a Write or a
\* copy of that key, or a seeding that covers it.
C3_WriteCreatesAbsentKey ==
    /\ (WriteOfAbsentKey /\ Before(Seg).default = NoneV) =>
            /\ ~last.ok /\ last.err = "NoValueForKey"
            /\ ~HasKey(trackers[Seg], last.key)
    /\ (WriteOfAbsentKey /\ last.ok) =>
            /\ Before(Seg).default # NoneV
            /\ HasKey(trackers[Seg], last.key)
            /\ ValueOf(trackers[Seg], last.key) = last.new_value
            /\ Returns(ReadNow(Seg, last.key_ptr, last.arg), last.new_value)
    /\ (~Idle /\ trackers # last.before) =>
            \A s \in TrackerSegments : \A i \in 1..Len(Before(s).data) :
                /\ Len(trackers[s].data) >= i
                /\ trackers[s].data[i][1] = Before(s).data[i][1]
                /\ trackers[s].data[i][2] # Before(s).data[i][2]
                      => MaySet(s, Before(s).data[i][1])

C3_Witness ==
    /\ WriteOfAbsentKey /\ last.ok
    /\ Len(Before(Seg).data) >= 1

\* a Read or a Write that failed after its tracker was resolved
FailedAccess ==
    /\ last.op \in {"read", "write"}
    /\ last.resolved /\ ~last.ok

OthersUnchanged(s) == \A o \in TrackerSegments \ {s} : trackers[o] = Before(o)

DefaultEntered ==
    /\ last.key # NoKey
    /\ ~HasKey(Before(Seg), last.key)
    /\ Before(Seg).default # NoneV
    /\ last.err \in {"UnknownMemoryCell", "InconsistentMemory"}
    /\ trackers[Seg].data = Append(Before(Seg).data, <<last.key, Before(Seg).default>>)

CurrentValue(t, k) == IF HasKey(t, k) THEN ValueOf(t, k) ELSE t.default

\* t2's keys are t1's keys, in the same positions, followed by those of t2 only
KeepsOrder(t1, t2) ==
    /\ Len(Keys(t2)) >= Len(Keys(t1))
    /\ SubSeq(Keys(t2), 1, Len(Keys(t1))) = Keys(t1)

\* C5: a successful Write of V under K whose current value is O has advanced
\* the cursor by one record width, has stored O (the value resolved before the
\* overwrite) in the cell at dict_ptr + 1, and maps K to V; the values and the
\* positions of all other keys of the tracker, and the other trackers, are
\* unchanged.
C5_WriteAuditSlot ==
    (last.op = "write" /\ last.ok) =>
        LET O == CurrentValue(Before(Seg), last.key) IN
        /\ last.key # NoKey
        /\ trackers[Seg].current_ptr = AddOffset(Before(Seg).current_ptr, DICT_ACCESS_SIZE)
        /\ last.old = O
        /\ get_maybe(memory, AddOffset(last.dict_ptr, 1)) = O
        /\ ValueOf(trackers[Seg], last.key) = last.new_value
        /\ KeepsOrder(Before(Seg), trackers[Seg])
        /\ Len(trackers[Seg].data) =
              Len(Before(Seg).data) + (IF HasKey(Before(Seg), last.key) THEN 0 ELSE 1)
        /\ \A i \in 1..Len(trackers[Seg].data) :
              trackers[Seg].data[i][1] # last.key
                  => trackers[Seg].data[i] = Before(Seg).data[i]
        /\ \A a \in DOMAIN last.mem_before : memory[a] = last.mem_before[a]
        /\ OthersUnchanged(Seg)

\* a Write replaced 8 by 7 in a tracker that holds other keys
C5_Witness ==
    /\ last.op = "write" /\ last.ok
    /\ last.old = IntV(8) /\ last.new_value = IntV(7)
    /\ Len(trackers[Seg].data) >= 2

\* the scalars among the elements of a key, in order
RECURSIVE ScalarsOf(_)
ScalarsOf(vs) ==
    IF vs = <<>> THEN <<>>
    ELSE (IF Head(vs)[1] = "Int" THEN <<Head(vs)[2]>> ELSE <<>>) \o ScalarsOf(Tail(vs))

\* the hash law of the search: the scalar itself when the key has exactly one
\* scalar element, the sponge of its scalar elements otherwise
HashOfScalars(sc) == IF Len(sc) = 1 THEN sc[1] ELSE poseidon_hash_many(sc)
HashLaw(vs) == HashOfScalars(ScalarsOf(vs))

\* the positions of the Compound keys of tracker t whose hash is h
Hits(t, h) ==
    {i \in 1..Len(t.data) : t.data[i][1][1] = "Compound" /\ HashLaw(t.data[i][1][2]) = h}

\* a hint that ran the hash search on the tracker its pointer resolved to
Searched ==
    /\ last.op \in {"read_from_key", "get_preimage", "copy"}
    /\ last.resolved /\ IsInt(last.arg)

\* C6: when several Compound keys of a tracker hash to h, Hashed Read,
\* Preimage Recovery and Cross-Tracker Copy resolve to the one inserted
\* earliest (Hashed Read returns its value, the copy carries it with its
\* value); and no hint changes the position of a key that is stored:
\* overwriting a key's value keeps its place, new keys go to the end.
C6_FirstMatchInInsertionOrder ==
    /\ (Searched /\ Hits(Before(Seg), last.arg[2]) # {}) =>
            LET hits == Hits(Before(Seg), last.arg[2])
                first == CHOOSE i \in hits : \A j \in hits : i <= j
                entry == Before(Seg).data[first]
            IN  /\ last.key = entry[1]
                /\ (last.op = "read_from_key" /\ last.ok) => last.value = entry[2]
                /\ (last.op = "copy" /\ last.ok) =>
                        /\ last.value = entry[2]
                        /\ ValueOf(trackers[last.dest_ptr[2]], entry[1]) = entry[2]
    /\ (~Idle /\ trackers # last.before) =>
            \A s \in TrackerSegments : KeepsOrder(Before(s), trackers[s])

\* the tracker got [20] by a Write and then [20, address] by a copy: both
\* hash to 20 and the Hashed Read of 20 resolves to [20]
C6_Witness ==
    /\ last.op = "read_from_key" /\ last.ok /\ Seg = 1
    /\ Cardinality(Hits(Before(1), last.arg[2])) >= 2
    /\ last.key = Compound(<<IntV(20)>>)

\* C7 as stated: the hash of the Compound key the search resolves to is x when
\* the key is [x] with x a scalar, and the sponge over all its elements when
\* it has two elements or more.
C7_SpongeOverAllElements ==
    (Searched /\ IsCompound(last.key)) =>
        LET k == last.key[2] IN
        /\ (Len(k) = 1 /\ IsInt(k[1])) => last.arg[2] = k[1][2]
        /\ Len(k) >= 2 =>
              /\ \A j \in 1..Len(k) : IsInt(k[j])
              /\ last.arg[2] = poseidon_hash_many([j \in 1..Len(k) |-> k[j][2]])

\* C7 amended: the hash the search computes for a stored Compound key is
\* taken over its scalar elements only, addresses being skipped: it is x
\* when exactly one element x is a scalar (whatever the key's length), and
\* the sponge of the scalar elements in order otherwise (so the sponge of all
\* elements when the key has no address and its length is not 1, and the
\* sponge of the empty sequence when it has no scalar).  The search resolves
\* to a Compound key with that hash when the tracker has one and misses
\* otherwise; Simple keys never match.
C7_HashOverScalars ==
    /\ (~Idle /\ trackers # last.before) =>
          \A s \in TrackerSegments : \A i \in 1..Len(trackers[s].data) :
              \E k \in {trackers[s].data[i][1]} :
                  IF IsCompound(k)
                  THEN \E h \in {HashLaw(k[2])} : KeyHash(k[2]) = h /\ Matches(k, h)
                  ELSE \A v \in HashOperands : IsInt(v) => ~Matches(k, v[2])
    /\ (Searched /\ last.op # "read_from_key") =>
          IF Hits(Before(Seg), last.arg[2]) = {}
          THEN ~last.ok /\ last.err = "NoPreimage" /\ last.key = NoKey
          ELSE IsCompound(last.key) /\ HashLaw(last.key[2]) = last.arg[2]
    /\ (Searched /\ last.op = "read_from_key") =>
          (IsCompound(last.key) <=> Hits(Before(Seg), last.arg[2]) # {})

\* Preimage Recovery for 20 returned the key [20, address], of length 2
C7_Witness ==
    /\ last.op = "get_preimage" /\ last.ok
    /\ last.arg = IntV(20)
    /\ Len(last.key[2]) = 2
    /\ get_maybe(memory, PreimageLenCell) = IntV(2)

\* a Hashed Read of h on a tracker with no Compound key hashing to h
HashedReadMiss ==
    /\ last.op = "read_from_key" /\ Searched
    /\ Hits(Before(Seg), last.arg[2]) = {}

Lookup == last.op \in {"read_from_key", "get_preimage", "get_keys"}

Recovery == last.op = "get_preimage" /\ Searched

\* C10: if some stored Compound key hashes to h, Preimage Recovery writes the
\* elements of the matched key, in order, to consecutive cells from the
\* output address and the key's length to the length operand (it fails with
\* a memory error when, and only when, one of these cells holds another
\* value); if no Compound key hashes to h, a Simple key h or not, it fails
\* with a preimage-not-found error and writes nothing.  After a Write of
\* [10, 20] with value 7 into an empty tracker, a Read of [10, 20] returns 7
\* and Preimage Recovery for sponge([10, 20]) returns [10, 20] and length 2.
C10_PreimageRecovery ==
    /\ (Recovery /\ Hits(Before(Seg), last.arg[2]) # {}) =>
          LET values == last.key[2]
              writable ==
                  /\ \A i \in 1..Len(values) :
                        CanInsert(last.mem_before, AddOffset(PreimageData, i - 1), values[i])
                  /\ CanInsert(last.mem_before, PreimageLenCell, IntV(Len(values)))
          IN
          /\ IsCompound(last.key) /\ HasKey(Before(Seg), last.key)
          /\ last.ok =>
                /\ \A i \in 1..Len(values) :
                      get_maybe(memory, AddOffset(PreimageData, i - 1)) = values[i]
                /\ get_maybe(memory, PreimageLenCell) = IntV(Len(values))
                /\ \A a \in DOMAIN last.mem_before : memory[a] = last.mem_before[a]
          /\ last.ok <=> writable
          /\ ~last.ok => last.err = "InconsistentMemory"
    /\ (Recovery /\ Hits(Before(Seg), last.arg[2]) = {}) =>
          /\ ~last.ok /\ last.err = "NoPreimage"
          /\ memory = last.mem_before
    /\ (last.op = "write" /\ last.ok /\ Before(Seg).data = <<>>
          /\ last.key = Compound(<<IntV(10), IntV(20)>>) /\ last.new_value = IntV(7)) =>
          /\ Returns(ReadNow(Seg, last.key_ptr, last.arg), IntV(7))
          /\ LET r == get_preimage_for_key(trackers, Released(memory), IntV(H1020),
                                           trackers[Seg].current_ptr, PreimageData)
             IN  /\ r.ok
                 /\ r.key = Compound(<<IntV(10), IntV(20)>>)
                 /\ get_maybe(r.memory, PreimageData) = IntV(10)
                 /\ get_maybe(r.memory, AddOffset(PreimageData, 1)) = IntV(20)
                 /\ get_maybe(r.memory, PreimageLenCell) = IntV(2)

\* [10, 20] was written with 7 into the empty tracker and Preimage Recovery
\* for sponge([10, 20]) returned its two elements
C10_Witness ==
    /\ Recovery /\ last.ok /\ Seg = 1
    /\ Before(1).data = << <<Compound(<<IntV(10), IntV(20)>>), IntV(7)>> >>
    /\ last.arg = IntV(H1020)
    /\ get_maybe(memory, PreimageData) = IntV(10)
    /\ get_maybe(memory, AddOffset(PreimageData, 1)) = IntV(20)
    /\ get_maybe(memory, PreimageLenCell) = IntV(2)

\* a Cross-Tracker Copy that succeeded; its source and destination trackers
CopyDone == last.op = "copy" /\ last.ok
Src == last.dict_ptr[2]
Dst == last.dest_ptr[2]

\* a Hashed Read of h on tracker s, run in the current state
HashedReadNow(s, h) ==
    hashdict_read_from_key(trackers, Released(memory), h, trackers[s].current_ptr)

\* the value tracker t holds under its earliest Compound key that hashes to h
FirstHitValue(t, h) ==
    t.data[CHOOSE i \in Hits(t, h) : \A j \in Hits(t, h) : i <= j][2]

\* C11 as stated: after a copy from S to D that succeeds, a Hashed Read
\* against D with the same hash returns the value S maps the matched key to,
\* D's cursor has advanced by one record width, and S's cursor and mapping
\* are unmodified.
C11_CopyThenHashedRead ==
    CopyDone =>
        /\ Returns(HashedReadNow(Dst, last.arg), ValueOf(Before(Src), last.key))
        /\ trackers[Dst].current_ptr = AddOffset(Before(Dst).current_ptr, DICT_ACCESS_SIZE)
        /\ trackers[Src] = Before(Src)

\* C11 amended: after a copy from S to D that succeeds, D maps the matched
\* key K to the value V that S maps it to (K keeps its place when D held it,
\* and is entered last otherwise; D's other entries are unchanged), D's cursor
\* has advanced by exactly one record width, S's mapping is unmodified, and
\* S's cursor is unmodified when S is not D.  A Hashed Read against D with
\* the same hash returns the value of the earliest Compound key of D that
\* hashes to h: that is V when D holds no such key inserted before K.
C11_CopyPostcondition ==
    CopyDone =>
        \E K \in {last.key} : \E V \in {ValueOf(Before(Src), last.key)} :
            /\ IsCompound(K) /\ last.value = V
            /\ ValueOf(trackers[Dst], K) = V
            /\ trackers[Dst].current_ptr =
                  AddOffset(Before(Dst).current_ptr, DICT_ACCESS_SIZE)
            /\ trackers[Dst].default = Before(Dst).default
            /\ IF HasKey(Before(Dst), K)
               THEN trackers[Dst].data =
                       [Before(Dst).data EXCEPT ![KeyIndex(Before(Dst).data, K)] = <<K, V>>]
               ELSE trackers[Dst].data = Append(Before(Dst).data, <<K, V>>)
            /\ trackers[Src].data = Before(Src).data
            /\ Src # Dst => trackers[Src] = Before(Src)
            /\ \A o \in TrackerSegments \ {Dst} : trackers[o] = Before(o)
            /\ memory = last.mem_before
            /\ \E r \in {HashedReadNow(Dst, last.arg)} :
                  /\ Returns(r, FirstHitValue(trackers[Dst], last.arg[2]))
                  /\ r.trackers = trackers
                  /\ Hits(Before(Dst), last.arg[2]) = {} => r.value = V

\* a copy entered a key into another tracker that held entries already
C11_Witness ==
    /\ CopyDone /\ Src # Dst
    /\ ~HasKey(Before(Dst), last.key)
    /\ Len(Before(Dst).data) >= 1
    /\ HashedReadNow(Dst, last.arg).value = last.value

\* a Prefix Enumeration on the tracker its pointer resolved to, with a prefix
\* length that is a scalar and prefix cells that are all initialized
Enumeration ==
    /\ last.op = "get_keys" /\ last.resolved /\ IsInt(last.arg)
    /\ \A i \in 1..last.arg[2] :
          get_maybe(last.mem_before, AddOffset(last.key_ptr, i - 1)) # NoneV

\* the prefix the hint was given, read from the cells it was pointed to
GivenPrefix ==
    [i \in 1..last.arg[2] |-> last.mem_before[AddOffset(last.key_ptr, i - 1)]]

\* positions of the entries of `data` whose key is Compound, at least as long
\* as the prefix, and equal to it element by element on its length
PrefixHits(data, prefix) ==
    {i \in 1..Len(data) :
        /\ data[i][1][1] = "Compound"
        /\ Len(data[i][1][2]) >= Len(prefix)
        /\ \A j \in 1..Len(prefix) : data[i][1][2][j] = prefix[j]}

\* the n-th smallest element of a set of positions
Nth(S, n) == CHOOSE i \in S : Cardinality({j \in S : j < i}) = n - 1

\* the elements of match n as the output regions of memory hold them: the
\* record that cell n of the top-level region points to, followed by the
\* cells of the region that record points to
DecodedMatch(mem, n) ==
    LET ptr == mem[AddOffset(mem[KeysCell], n - 1)]
        rest == mem[AddOffset(ptr, 1)]
        len == Cardinality({a \in DOMAIN mem : a[2] = rest[2]})
    IN  <<mem[ptr]>> \o [j \in 1..len |-> mem[AddOffset(rest, j - 1)]]

\* C12: a Prefix Enumeration that completes returns exactly the stored
\* Compound keys whose length is at least the prefix length and whose leading
\* elements equal the prefix element by element, each once, in the tracker's
\* insertion order; Simple keys are never returned.
C12_PrefixEnumerationComplete ==
    (Enumeration /\ last.ok) =>
        \E data \in {Before(Seg).data} : \E hits \in {PrefixHits(data, GivenPrefix)} :
            /\ Len(last.matches) = Cardinality(hits)
            /\ get_maybe(memory, KeysLenCell) = IntV(Cardinality(hits))
            /\ \A n \in 1..Cardinality(hits) :
                  /\ last.matches[n] = data[Nth(hits, n)][1][2]
                  /\ DecodedMatch(memory, n) = data[Nth(hits, n)][1][2]
            /\ get_maybe(memory, AddOffset(memory[KeysCell], Cardinality(hits))) = NoneV

\* two of the four or more keys of the tracker start with the one-element
\* prefix and are returned in their order
C12_Witness ==
    /\ Enumeration /\ last.ok
    /\ last.arg = IntV(1)
    /\ Len(last.matches) = 2
    /\ Len(Before(Seg).data) >= 4
    /\ DecodedMatch(memory, 1) # DecodedMatch(memory, 2)

\* C13 as stated: a Prefix Enumeration whose prefix cells are initialized
\* completes, whatever the tracker holds (a zero-length Compound key
\* included): it writes the match count and the pointer to the top-level
\* region, cell i of that region pointing to a record of match i's first
\* element and a pointer to the region of its other elements; its only
\* possible failure is a memory error.
C13_NoNotFoundFailure ==
    Enumeration =>
        \/ /\ last.ok
           /\ get_maybe(memory, KeysLenCell) = IntV(Len(last.matches))
           /\ IsRel(get_maybe(memory, KeysCell))
           /\ \A n \in 1..Len(last.matches) : DecodedMatch(memory, n) = last.matches[n]
        \/ /\ ~last.ok
           /\ last.err \in {"InconsistentMemory", "UnknownMemoryCell"}

\* the tracker holds the zero-length Compound key, the prefix has length 0,
\* and the enumeration stopped on a panic
C13_Witness ==
    /\ Enumeration /\ ~last.ok
    /\ last.err = "Panic"
    /\ last.arg = IntV(0)
    /\ HasKey(Before(Seg), Compound(<<>>))

\* a Precompile Seeding that ran on the tracker its pointer resolved to
Seeded == last.op = "track_precompiles" /\ last.resolved

\* the scalar of reserved address n: its bytes, the last of which is n, read
\* with the first byte least significant
AddressScalar(n) == n * 256 ^ (AddressBytes - 1)

ReservedKeys == {Compound(<<IntV(AddressScalar(n))>>) : n \in 1..NumPrecompiles}

\* a Precompile Seeding of tracker s, run in the current state
SeedNow(s, order) ==
    track_precompiles(trackers, Released(memory), trackers[s].current_ptr, order)

\* C14: seeding a tracker twice yields the same key set and the same mapping
\* as seeding it once: a seeding run in the state a seeding leaves, in
\* whatever order it takes the addresses, changes no entry, and a seeding of
\* a tracker that holds every reserved key with value 1 changes no entry;
\* each seeding advances the cursor by the number of reserved addresses
\* times the record width.
C14_SeedingIdempotent ==
    Seeded =>
        /\ last.ok
        /\ trackers[Seg].current_ptr =
              AddOffset(Before(Seg).current_ptr, NumPrecompiles * DICT_ACCESS_SIZE)
        /\ \A k \in ReservedKeys : HasKey(trackers[Seg], k)
        /\ \A order \in PrecompileOrders :
              \E r \in {SeedNow(Seg, order)} :
                  /\ r.ok
                  /\ r.trackers[Seg].data = trackers[Seg].data
                  /\ r.trackers[Seg].current_ptr =
                        AddOffset(trackers[Seg].current_ptr, NumPrecompiles * DICT_ACCESS_SIZE)
        /\ (\A k \in ReservedKeys :
                HasKey(Before(Seg), k) /\ ValueOf(Before(Seg), k) = IntV(1))
              => trackers[Seg].data = Before(Seg).data

\* the tracker was seeded a second time
C14_Witness ==
    /\ Seeded /\ last.ok
    /\ \A k \in ReservedKeys : HasKey(Before(Seg), k) /\ ValueOf(Before(Seg), k) = IntV(1)
    /\ Before(Seg).current_ptr[3] >= NumPrecompiles * DICT_ACCESS_SIZE
    /\ trackers[Seg].data = Before(Seg).data

\* a cell of the program that holds the scalar of a reserved address
ProbeCell == RelV(FrameSegment, 4)

\* a Read of the one-element key [a] on tracker s, run in the current state
ReadOfScalar(s, a) ==
    hashdict_read(trackers, InsertCell(Released(memory), ProbeCell, IntV(a)),
                  trackers[s].current_ptr, ProbeCell, IntV(1))

\* C15: after a Precompile Seeding of a tracker, for every reserved address a
\* a Read of the one-element Compound key [a] returns the scalar 1, whatever
\* value [a] held before, and the entries of all keys outside the reserved
\* set, and the other trackers, are unchanged.
C15_SeededEntriesReadable ==
    Seeded =>
        /\ \A n \in 1..NumPrecompiles : Returns(ReadOfScalar(Seg, AddressScalar(n)), IntV(1))
        /\ \A i \in 1..Len(Before(Seg).data) :
              Before(Seg).data[i][1] \notin ReservedKeys
                  => trackers[Seg].data[i] = Before(Seg).data[i]
        /\ {trackers[Seg].data[i][1] : i \in 1..Len(trackers[Seg].data)} =
              {Before(Seg).data[i][1] : i \in 1..Len(Before(Seg).data)} \cup ReservedKeys
        /\ OthersUnchanged(Seg)

\* the key of the first reserved address held 7 before the seeding
C15_Witness ==
    /\ Seeded /\ last.ok
    /\ HasKey(Before(Seg), Compound(<<IntV(AddressScalar(1))>>))
    /\ ValueOf(Before(Seg), Compound(<<IntV(AddressScalar(1))>>)) = IntV(7)
    /\ ValueOf(trackers[Seg], Compound(<<IntV(AddressScalar(1))>>)) = IntV(1)
    /\ Before(Seg).current_ptr[3] > 0

\* C16: across every sequence of the seven hints, successful or failed, no
\* tracker's cursor ever decreases, and every change to a cursor is a
\* positive whole multiple of the record width (within its segment).
C16_CursorMonotone ==
    [][\A s \in TrackerSegments :
          \E d \in {trackers'[s].current_ptr[3] - trackers[s].current_ptr[3]} :
              /\ d >= 0
              /\ d % DICT_ACCESS_SIZE = 0
              /\ trackers'[s].current_ptr[2] = trackers[s].current_ptr[2]]_vars

\* a failed Write moved the cursor of a tracker that a seeding had moved by
\* several record widths
C16_Witness ==
    /\ last.op = "write" /\ ~last.ok /\ last.resolved
    /\ Before(Seg).current_ptr[3] >= NumPrecompiles * DICT_ACCESS_SIZE
    /\ trackers[Seg].current_ptr[3] = Before(Seg).current_ptr[3] + DICT_ACCESS_SIZE
    /\ \E o \in TrackerSegments : trackers[o].current_ptr[3] = 0

\* a Cross-Tracker Copy that failed
CopyFailed == last.op = "copy" /\ ~last.ok

\* C17: if a Cross-Tracker Copy fails (no Compound key of the source hashes
\* to the input, the matched key has no value, or the destination pointer
\* resolves to no tracker) then no tracker's cursor or mapping has changed,
\* and the memory is as it was.  The copy fails whenever the source holds no
\* Compound key with that hash and whenever the destination does not resolve.
C17_FailedCopyAtomic ==
    /\ CopyFailed =>
          /\ trackers = last.before
          /\ memory = last.mem_before
          /\ last.err \in {"NoDictTracker", "MismatchedDictPtr", "IdentifierNotInteger",
                           "NoPreimage", "NoValueForPreimage"}
    /\ (last.op = "copy" /\ Searched /\ Hits(Before(Src), last.arg[2]) = {}) =>
          CopyFailed /\ last.err = "NoPreimage"
    /\ (last.op = "copy" /\ ~get_tracker(last.before, last.dest_ptr).ok) => CopyFailed

\* the source lookup succeeded and the destination pointer resolved to no
\* tracker
C17_Witness ==
    /\ CopyFailed /\ Searched
    /\ Hits(Before(Src), last.arg[2]) # {}
    /\ last.err = "NoDictTracker"
    /\ IsCompound(last.key)

\* hints addressed to one tracker, to run before or after the hint that ran:
\* a Write of [20] := 7, a Read of [10], a seeding
OtherHints ==
    {[op |-> "write", key_ptr |-> RelV(KeySegment, 1), key_len |-> IntV(1)],
     [op |-> "read", key_ptr |-> RelV(KeySegment, 0), key_len |-> IntV(1)],
     [op |-> "track_precompiles", key_ptr |-> NoneV, key_len |-> NoneV]}

\* hint y addressed to tracker b, run from trackers trs and memory mem
RunOn(y, b, trs, mem) ==
    CASE y.op = "write" ->
            hashdict_write(trs, mem, trs[b].current_ptr, y.key_ptr, y.key_len, IntV(7))
      [] y.op = "read" ->
            hashdict_read(trs, mem, trs[b].current_ptr, y.key_ptr, y.key_len)
      [] OTHER ->
            track_precompiles(trs, mem, trs[b].current_ptr, [i \in 1..NumPrecompiles |-> i])

\* the hint that ran, run again with the same operands from trackers trs and
\* memory mem, its pointers being the cursors of the same trackers (a seeding
\* takes the addresses in an order that gives what the hint that ran gave)
RunAgain(trs, mem, m0) ==
    CASE last.op = "write" ->
            {hashdict_write(trs, mem, trs[Seg].current_ptr, last.key_ptr, last.arg,
                            last.new_value)}
      [] last.op = "read" ->
            {hashdict_read(trs, mem, trs[Seg].current_ptr, last.key_ptr, last.arg)}
      [] last.op = "copy" ->
            {copy_hashdict_tracker_entry(trs, mem, trs[Src].current_ptr,
                                         trs[Dst].current_ptr, last.arg)}
      [] OTHER ->
            {track_precompiles(trs, mem, trs[Seg].current_ptr, order) :
                order \in {o \in PrecompileOrders :
                    track_precompiles(last.before, m0, last.dict_ptr, o).trackers
                        = trackers}}

\* running hint y on tracker b after the hint that ran (from memory m1), or
\* before it (from memory m0), gives the same trackers and the same outcomes
Commutes(y, b, m1, m0) ==
    \E xy \in {RunOn(y, b, trackers, m1)} :
    \E y0 \in {RunOn(y, b, last.before, m0)} :
        /\ xy.ok = y0.ok
        /\ \A yx \in RunAgain(y0.trackers, Released(y0.memory), m0) :
              yx.ok = last.ok /\ yx.trackers = xy.trackers

\* Commutes for every hint of OtherHints on every tracker of B
AllCommute(B) ==
    \E m1 \in {Released(memory)} : \E m0 \in {Released(last.mem_before)} :
        \A b \in B : \A y \in OtherHints : Commutes(y, b, m1, m0)

\* a Read, a Write, a seeding or a copy whose trackers were resolved
Addressed ==
    /\ last.op \in {"read", "write", "track_precompiles", "copy"} /\ last.resolved
    /\ last.op = "copy" => get_tracker(last.before, last.dest_ptr).ok

\* the trackers the hint that ran is addressed to
Targets == IF last.op = "copy" THEN {Dst} ELSE {Seg}

\* C18 as stated: a Read, a Write and a seeding change the tracker they
\* target only, a copy changes its destination only, and so the final state
\* of two trackers does not depend on how the hints on the two are
\* interleaved: the hint that ran and a hint on another tracker give the
\* same trackers in either order.
C18_IndependentOfInterleaving ==
    Addressed =>
        /\ \A o \in TrackerSegments \ Targets : trackers[o] = Before(o)
        /\ AllCommute(TrackerSegments \ Targets)

\* C18 amended: a Read, a Write and a seeding change the tracker they target
\* only, and a copy changes its destination only; every other tracker keeps
\* its cursor and mapping.  A Read, a Write or a seeding on one tracker and a
\* Read, a Write or a seeding on another give the same trackers in either
\* order (so does a copy within one tracker); what a copy from S enters in D
\* is what S holds when the copy runs, so it depends on the order of the copy
\* and the hints on S.
C18_TrackerIsolation ==
    /\ ~Idle => (last.resolved \/ trackers = last.before)
    /\ Addressed =>
          /\ \A o \in TrackerSegments \ Targets : trackers[o] = Before(o)
          /\ AllCommute(TrackerSegments \ (Targets \cup {Src}))

\* a Write on one tracker after hints on the other, which commutes with a
\* Write on the other
C18_Witness ==
    /\ last.op = "write" /\ last.ok
    /\ \E b \in TrackerSegments \ {Seg} :
          /\ Before(b).current_ptr[3] > 0
          /\ \E y \in OtherHints :
                y.op = "write" /\ RunOn(y, b, trackers, Released(memory)).ok

\* the Preimage Recovery of the hash of the hint that ran, run on the same
\* tracker instead of that hint
RecoveryInstead ==
    get_preimage_for_key(last.before, Released(last.mem_before), last.arg,
                         last.dict_ptr, PreimageData)

\* a Hashed Read whose tracker was resolved and whose output cell was free
HashedReadRan ==
    /\ last.op = "read_from_key" /\ last.resolved /\ IsInt(last.arg)
    /\ get_maybe(last.mem_before, ValueCell) = NoneV

\* the keys tracker s holds now and did not hold before the hint that ran
AddedKeys(s) ==
    {trackers[s].data[i][1] : i \in (Len(Before(s).data) + 1)..Len(trackers[s].data)}

HasSimpleKey(t) == \E i \in 1..Len(t.data) : IsSimple(t.data[i][1])

====
